---- MODULE Spec2Model ----
(***************************************************************************)
(* Model of the sharded dataset loader of src/main.py: the single-file     *)
(* reader, the line reader, the sparse index reconstruction with parallel  *)
(* fetch (read_jsongz_files), the pickle/gzip snapshot cache and the       *)
(* orchestrator load_dataset.                                              *)
(***************************************************************************)
EXTENDS Integers, Sequences, FiniteSets, TLC

\* ------------------------------------------------------------------ bounds
\* largest shard index of a directory handed to read_jsongz_files
MaxIndex == 3
\* largest pool size / num_workers that is tried
MaxWorkers == 2
\* largest max_files cap that is tried
MaxCap == 2
\* longest .jsonl.gz file, in lines
MaxLines == 5
\* largest max_lines cap that is tried
MaxLineCap == 4

\* ------------------------------------------------------------- basic values
\* Python's None where a path is expected
None == <<>>
\* Optional[int]: None is the empty set, an integer c is {c}
NoInt == {}
Some(c) == {c}
TheInt(o) == CHOOSE c \in o : TRUE

\* the characters str.strip() / bytes.strip() removes
Whitespace == {" ", "\n", "\t"}
\* decimal digits, to print an index into a payload
Digits == <<"0", "1", "2", "3", "4", "5", "6", "7", "8", "9">>

\* "<dir>/<i>.json.gz": the directory and the base name split at "."
ShardPath(d, i) == <<d, <<i, "json", "gz">>>>
Basename(p) == p[2]
Dirname(p) == p[1]
\* int(os.path.basename(p).split(".")[0])
IndexOf(p) == Basename(p)[1]

\* the bytes stored in the shard at path p: a payload naming the shard,
\* surrounded by whitespace as json.dump / a trailing newline leaves it
RawContent(p) == <<" ", Dirname(p), Digits[IndexOf(p) + 1], "\n">>

RECURSIVE LStrip(_)
LStrip(s) ==
  IF s = <<>> THEN <<>>
  ELSE IF Head(s) \in Whitespace THEN LStrip(Tail(s)) ELSE s

RECURSIVE RStrip(_)
RStrip(s) ==
  IF s = <<>> THEN <<>>
  ELSE IF s[Len(s)] \in Whitespace THEN RStrip(SubSeq(s, 1, Len(s) - 1)) ELSE s

Strip(s) == RStrip(LStrip(s))

\* the json text of None
NullStr == <<"null">>
\* what a failed gzip read raises
IOError == <<"IOError">>

\* load_jsongz_as_str(subpath) on a filesystem whose corrupt shards are badset:
\* the record, or IOError for the exception gzip raises
load_jsongz_as_str(subpath, badset) ==
  IF subpath = None THEN NullStr
  ELSE IF subpath \in badset THEN IOError
  ELSE Strip(RawContent(subpath))

\* --------------------------------------------------------------- variables
VARIABLES
  \* read_jsongz_files: position, arguments and locals
  rpc, in_paths, num_workers, max_files, ind_to_path, missing_count, paths,
  file_data,
  \* the worker pool of one p.map call: next task to hand out, the task each
  \* worker holds (0: idle), and the results in completion order
  next_task, busy, outq,
  \* the filesystem's corrupt shards, the warnings emitted, the shard files
  \* opened so far (in order) and the kinds of work done by the current call
  bad, warned, reads, ops,
  \* read_jsonlgz: position, the file's line count, argument and local
  lpc, nlines, max_lines, lines,
  \* load_dataset and save_pickle_gzip: position, arguments, the dataset
  \* sources under the root, locals, the two cache files, the call's outcome
  pc, args, fs, split_to_path, todo, split_to_house_strs, dd, gz, tmp, outcome,
  \* what the current call found at its start
  gz0, tmp0

rvars == <<rpc, in_paths, num_workers, max_files, ind_to_path, missing_count,
           paths, file_data, next_task, busy, outq>>
evars == <<bad, warned, reads, ops>>
lvars == <<lpc, nlines, max_lines, lines>>
mvars == <<pc, args, fs, split_to_path, todo, split_to_house_strs, dd, gz, tmp,
           outcome, gz0, tmp0>>
vars == <<rvars, evars, lvars, mvars>>

\* ------------------------------------------------------ read_jsongz_files
Min(a, b) == IF a < b THEN a ELSE b
Max(a, b) == IF a < b THEN b ELSE a
SetMax(S) == CHOOSE x \in S : \A y \in S : y <= x
Range(s) == {s[k] : k \in DOMAIN s}

\* {int(basename(p).split(".")[0]): p for p in paths}: a later path of the
\* same index replaces an earlier one
IndToPath(ps) ==
  [i \in {IndexOf(ps[k]) : k \in DOMAIN ps} |->
     ps[SetMax({k \in DOMAIN ps : IndexOf(ps[k]) = i})]]

\* the gap-filling loop with the increment of missing_count left out
RECURSIVE FillGapsUncounted(_, _, _, _)
FillGapsUncounted(m, i, max_ind, count) ==
  IF i > max_ind THEN <<m, count>>
  ELSE IF i \notin DOMAIN m
       THEN FillGapsUncounted(
              [j \in DOMAIN m \cup {i} |-> IF j = i THEN None ELSE m[j]],
              i + 1, max_ind, count)
       ELSE FillGapsUncounted(m, i + 1, max_ind, count)

\* the loop over range(max_ind + 1) from i on: <<ind_to_path, missing_count>>
RECURSIVE FillGaps(_, _, _, _)
FillGaps(m, i, max_ind, count) ==
  IF i > max_ind THEN <<m, count>>
  ELSE IF i \notin DOMAIN m
       THEN FillGaps([j \in DOMAIN m \cup {i} |-> IF j = i THEN None ELSE m[j]],
                     i + 1, max_ind, count + 1)
       ELSE FillGaps(m, i + 1, max_ind, count)

\* [ind_to_path[i] for i in range(max_ind + 1)]
DensePaths(m, max_ind) == [k \in 1..(max_ind + 1) |-> m[k - 1]]

\* Python's s[:c]
SliceTo(s, c) ==
  IF c >= 0 THEN SubSeq(s, 1, Min(c, Len(s)))
  ELSE SubSeq(s, 1, Max(Len(s) + c, 0))

\* the shortest prefix of s that holds c real paths (all of s if it has fewer)
RECURSIVE PrefixWithPresent(_, _)
PrefixWithPresent(s, c) ==
  IF c <= 0 \/ s = <<>> THEN <<>>
  ELSE <<Head(s)>> \o PrefixWithPresent(Tail(s), IF Head(s) = None THEN c ELSE c - 1)

\* a cap that counts present files only, as if applied before gap filling
TruncatePresentOnly(ps, mf) ==
  IF mf = NoInt THEN ps ELSE PrefixWithPresent(ps, TheInt(mf))

\* paths[:max_files] when max_files is not None
Truncate(ps, mf) == IF mf = NoInt THEN ps ELSE SliceTo(ps, TheInt(mf))

\* [load_jsongz_as_str(p) for p in paths], when no read fails
SeqResult(ps, badset) == [k \in 1..Len(ps) |-> load_jsongz_as_str(ps[k], badset)]

\* results handed back in the order the workers completed them
MapByCompletion(q) == [k \in 1..Len(q) |-> q[k][2]]

\* Pool.map's result: the value of each position, whenever it completed
MapResult(q) ==
  [k \in 1..Len(q) |-> (CHOOSE e \in Range(q) : e[1] = k)[2]]

Workers == 1..num_workers

\* lines 44-45
REmpty ==
  /\ rpc = "r_start"
  /\ Len(in_paths) = 0
  /\ file_data' = <<>>
  /\ rpc' = "r_ret"
  /\ UNCHANGED <<in_paths, num_workers, max_files, ind_to_path, missing_count,
                 paths, next_task, busy, outq>>
  /\ UNCHANGED <<evars, lvars, mvars>>

\* lines 47-59
RReconstruct ==
  /\ rpc = "r_start"
  /\ Len(in_paths) > 0
  /\ LET m0 == IndToPath(in_paths)
         max_ind == SetMax(DOMAIN m0)
         filled == FillGaps(m0, 0, max_ind, 0)
     IN /\ ind_to_path' = filled[1]
        /\ missing_count' = filled[2]
        /\ warned' = IF filled[2] > 0
                     THEN warned \cup {<<"missing", Dirname(in_paths[1]), filled[2]>>}
                     ELSE warned
        /\ paths' = DensePaths(filled[1], max_ind)
  /\ ops' = ops \cup {"reconstruct"}
  /\ rpc' = "r_cap"
  /\ UNCHANGED <<in_paths, num_workers, max_files, file_data, next_task, busy, outq>>
  /\ UNCHANGED <<bad, reads, lvars, mvars>>

\* lines 61-68
RTruncate ==
  /\ rpc = "r_cap"
  /\ paths' = Truncate(paths, max_files)
  /\ IF Len(paths') = 0
     THEN /\ file_data' = <<>>
          /\ rpc' = "r_ret"
          /\ ops' = ops
     ELSE IF num_workers > 0
     THEN /\ rpc' = "r_pool"
          /\ ops' = ops \cup {"pool"}
          /\ UNCHANGED file_data
     ELSE /\ rpc' = "r_seq"
          /\ UNCHANGED <<file_data, ops>>
  /\ next_task' = 1
  /\ busy' = [w \in Workers |-> 0]
  /\ outq' = <<>>
  /\ UNCHANGED <<in_paths, num_workers, max_files, ind_to_path, missing_count>>
  /\ UNCHANGED <<bad, warned, reads, lvars, mvars>>

\* line 72: one iteration of the list comprehension
RSeqRead ==
  /\ rpc = "r_seq"
  /\ LET k == Len(file_data) + 1
         v == load_jsongz_as_str(paths[k], bad)
     IN /\ reads' = IF paths[k] = None THEN reads ELSE Append(reads, paths[k])
        /\ ops' = ops \cup {"fetch"}
        /\ IF v = IOError
           THEN /\ rpc' = "r_raise"
                /\ file_data' = <<>>
           ELSE /\ file_data' = Append(file_data, v)
                /\ rpc' = IF k = Len(paths) THEN "r_ret" ELSE "r_seq"
  /\ UNCHANGED <<in_paths, num_workers, max_files, ind_to_path, missing_count,
                 paths, next_task, busy, outq>>
  /\ UNCHANGED <<bad, warned, lvars, mvars>>

\* line 69: an idle worker takes the next task of p.map and opens its file
PoolTake(w) ==
  /\ rpc = "r_pool"
  /\ busy[w] = 0
  /\ next_task <= Len(paths)
  /\ busy' = [busy EXCEPT ![w] = next_task]
  /\ next_task' = next_task + 1
  /\ reads' = IF paths[next_task] = None THEN reads
              ELSE Append(reads, paths[next_task])
  /\ ops' = ops \cup {"fetch"}
  /\ UNCHANGED <<rpc, in_paths, num_workers, max_files, ind_to_path,
                 missing_count, paths, file_data, outq>>
  /\ UNCHANGED <<bad, warned, lvars, mvars>>

\* line 69: a worker's task completes; its result is queued with its position
PoolFinish(w) ==
  /\ rpc = "r_pool"
  /\ busy[w] # 0
  /\ load_jsongz_as_str(paths[busy[w]], bad) # IOError
  /\ outq' = Append(outq, <<busy[w], load_jsongz_as_str(paths[busy[w]], bad)>>)
  /\ busy' = [busy EXCEPT ![w] = 0]
  /\ UNCHANGED <<rpc, in_paths, num_workers, max_files, ind_to_path,
                 missing_count, paths, file_data, next_task>>
  /\ UNCHANGED <<evars, lvars, mvars>>

\* lines 68-69: a worker's task raises; p.map re-raises it in the parent and
\* leaving the with block terminates the pool
PoolFail(w) ==
  /\ rpc = "r_pool"
  /\ busy[w] # 0
  /\ load_jsongz_as_str(paths[busy[w]], bad) = IOError
  /\ rpc' = "r_raise"
  /\ busy' = [v \in Workers |-> 0]
  /\ file_data' = <<>>
  /\ UNCHANGED <<in_paths, num_workers, max_files, ind_to_path, missing_count,
                 paths, next_task, outq>>
  /\ UNCHANGED <<evars, lvars, mvars>>

\* lines 69-70: every task has completed; p.map returns the assembled list
PoolReturn ==
  /\ rpc = "r_pool"
  /\ Len(outq) = Len(paths)
  /\ file_data' = MapResult(outq)
  /\ rpc' = "r_ret"
  /\ UNCHANGED <<in_paths, num_workers, max_files, ind_to_path, missing_count,
                 paths, next_task, busy, outq>>
  /\ UNCHANGED <<evars, lvars, mvars>>

ReadFilesStep ==
  \/ REmpty
  \/ RReconstruct
  \/ RTruncate
  \/ RSeqRead
  \/ \E w \in Workers : PoolTake(w)
  \/ \E w \in Workers : PoolFinish(w)
  \/ \E w \in Workers : PoolFail(w)
  \/ PoolReturn

\* ----------------------------------------------------------- read_jsonlgz
\* the j-th line of the .jsonl.gz file at path
Line(path, j) == <<path, "line", Digits[j + 1], "\n">>

\* lines 34-37: the next line is appended, then the cap is tested
LRead ==
  /\ lpc = "l_loop"
  /\ Len(lines) < nlines
  /\ lines' = Append(lines, Line("lines.jsonl.gz", Len(lines) + 1))
  /\ lpc' = IF max_lines # NoInt /\ Len(lines') >= TheInt(max_lines)
            THEN "l_ret" ELSE "l_loop"
  /\ UNCHANGED <<nlines, max_lines>>
  /\ UNCHANGED <<rvars, evars, mvars>>

\* lines 34, 38: the file is exhausted
LEof ==
  /\ lpc = "l_loop"
  /\ Len(lines) = nlines
  /\ lpc' = "l_ret"
  /\ UNCHANGED <<nlines, max_lines, lines>>
  /\ UNCHANGED <<rvars, evars, mvars>>

ReadLinesStep == LRead \/ LEof

\* ------------------------------------------------- states of rest and Init
RIdle ==
  /\ rpc = "idle"
  /\ in_paths = <<>>
  /\ num_workers = 0
  /\ max_files = NoInt
  /\ ind_to_path = <<>>
  /\ missing_count = 0
  /\ paths = <<>>
  /\ file_data = <<>>
  /\ next_task = 1
  /\ busy = <<>>
  /\ outq = <<>>

LIdle ==
  /\ lpc = "idle"
  /\ nlines = 0
  /\ max_lines = NoInt
  /\ lines = <<>>

NoFile == [st |-> "absent", data |-> <<>>]
NoOutcome == [kind |-> "none", err |-> "", val |-> <<>>]
NoArgs == [op |-> "none", root |-> FALSE, has_map |-> FALSE, map |-> <<>>,
           use_cache |-> FALSE, num_workers |-> 0, data |-> <<>>]

MIdle ==
  /\ pc = "idle"
  /\ args = NoArgs
  /\ fs = <<>>
  /\ split_to_path = <<>>
  /\ todo = <<>>
  /\ split_to_house_strs = <<>>
  /\ dd = <<>>
  /\ gz = NoFile
  /\ tmp = NoFile
  /\ outcome = NoOutcome
  /\ gz0 = NoFile
  /\ tmp0 = NoFile

\* every order in which glob may list the files of S
Orderings(S) ==
  {s \in [1..Cardinality(S) -> S] : \A i, j \in DOMAIN s : s[i] = s[j] => i = j}

\* the listings of a directory "shards" holding any shards of index 0..MaxIndex
InputPaths ==
  UNION {Orderings({ShardPath("shards", i) : i \in I}) : I \in SUBSET (0..MaxIndex)}

OptionalCaps(lo, hi) == {NoInt} \cup {Some(c) : c \in lo..hi}

\* read_jsongz_files called on any listing, pool size and cap, with at most
\* one unreadable shard
InitFiles ==
  /\ rpc = "r_start"
  /\ in_paths \in InputPaths
  /\ num_workers \in 0..MaxWorkers
  /\ max_files \in OptionalCaps(-1, MaxCap)
  /\ bad \in {B \in SUBSET Range(in_paths) : Cardinality(B) <= 1}
  /\ ind_to_path = <<>>
  /\ missing_count = 0
  /\ paths = <<>>
  /\ file_data = <<>>
  /\ next_task = 1
  /\ busy = <<>>
  /\ outq = <<>>
  /\ warned = {}
  /\ reads = <<>>
  /\ ops = {}
  /\ LIdle
  /\ MIdle

SpecFiles == InitFiles /\ [][ReadFilesStep]_vars

\* read_jsonlgz called on a file of any length with any cap
InitLines ==
  /\ lpc = "l_loop"
  /\ nlines \in 0..MaxLines
  /\ max_lines \in OptionalCaps(0, MaxLineCap)
  /\ lines = <<>>
  /\ bad = {}
  /\ warned = {}
  /\ reads = <<>>
  /\ ops = {}
  /\ RIdle
  /\ MIdle

SpecLines == InitLines /\ [][ReadLinesStep]_vars

\* ------------------------------------ the dataset root and the cache files
\* shard indices of a populated split directory: 0 and MainMaxIndex, so that
\* every index between them is a gap
MainMaxIndex == 2
\* largest num_workers load_dataset is called with
MainWorkers == 1
\* mp.cpu_count() of the machine
CpuCount == 2
\* lines of the file lines.jsonl.gz
MainLines == 2

\* the insertion order of the split dictionary, lines 156-160
SplitOrder == <<"train", "val", "test">>
RootSplits == Range(SplitOrder)
\* os.path.join(path_to_splits, split): paths are written relative to the root
JoinRoot(split) == split
\* the paths a caller's split_to_path may name
MapPaths == {"train", "val", "lines.jsonl.gz", "gone.jsonl.gz", "notes.txt"}
AllPaths == {"root"} \cup RootSplits \cup MapPaths
\* path.endswith(".jsonl.gz")
EndsWithJsonlGz(path) == path \in {"lines.jsonl.gz", "gone.jsonl.gz"}

\* os.path.exists / os.path.isdir on the dataset files
Exists(path) == fs[path] # "absent"
IsDir(path) == fs[path] \in {"dir", "empty"}
\* glob.glob(os.path.join(path, "*.json.gz")), as a set
MainShards == {0, MainMaxIndex}
Glob(path) == IF fs[path] = "dir" THEN {ShardPath(path, i) : i \in MainShards} ELSE {}

\* the filesystems: an absent root, or a root whose split directories are
\* absent, empty or populated; one .jsonl.gz file and one file of another type
FsChoices ==
  {f \in [AllPaths -> {"absent", "empty", "dir", "file"}] :
     /\ f["lines.jsonl.gz"] = "file"
     /\ f["notes.txt"] = "file"
     /\ f["gone.jsonl.gz"] = "absent"
     /\ f["root"] \in {"absent", "dir"}
     /\ \A sp \in RootSplits : f[sp] \in {"absent", "empty", "dir"}
     /\ f["root"] = "absent" => \A sp \in RootSplits : f[sp] = "absent"}

\* the split_to_path mappings a caller may pass
Mappings == UNION {[S -> MapPaths] : S \in SUBSET {"train", "val"}}
\* the keys of a split dictionary in insertion order
KeysInOrder(m) == SelectSeq(SplitOrder, LAMBDA sp : sp \in DOMAIN m)

Returned(v) == [kind |-> "returned", err |-> "", val |-> v]
Raised(e) == [kind |-> "raised", err |-> e, val |-> <<>>]
Killed == [kind |-> "killed", err |-> "", val |-> <<>>]

\* get_cache_file_path(path_to_splits) is the file held in gz; the temporary
\* file save_path.replace(".gz", "") is the file held in tmp
FileExists(f) == f.st # "absent"

\* load_pickle_gzip on the file f: the pickled object, or the error gzip and
\* pickle raise on a missing or truncated file
load_pickle_gzip(f) ==
  IF f.st = "complete" THEN Returned(f.data)
  ELSE IF f.st = "partial" THEN Raised("EOFError")
  ELSE Raised("FileNotFoundError")

\* lines 151-152
ResolvedWorkers(n) == IF n < 0 THEN CpuCount ELSE n

\* the locals of a call are gone when it ends
EndCall(o) ==
  /\ pc' = "done"
  /\ outcome' = o
  /\ split_to_path' = <<>>
  /\ todo' = <<>>
  /\ split_to_house_strs' = <<>>
  /\ dd' = <<>>

RReset ==
  /\ rpc' = "idle"
  /\ in_paths' = <<>>
  /\ num_workers' = 0
  /\ max_files' = NoInt
  /\ ind_to_path' = <<>>
  /\ missing_count' = 0
  /\ paths' = <<>>
  /\ file_data' = <<>>
  /\ next_task' = 1
  /\ busy' = <<>>
  /\ outq' = <<>>

LReset ==
  /\ lpc' = "idle"
  /\ nlines' = 0
  /\ max_lines' = NoInt
  /\ lines' = <<>>

\* ------------------------------------------------------------ load_dataset
\* the call and its preconditions, lines 131-144; max_houses_per_split is None
LoadCall(a) ==
  /\ pc = "idle"
  /\ args' = a
  /\ gz0' = gz
  /\ tmp0' = tmp
  /\ ops' = {}
  /\ reads' = <<>>
  /\ warned' = {}
  /\ IF a.root = a.has_map \/ (a.use_cache /\ ~a.root)
     THEN EndCall(Raised("AssertionError"))
     ELSE /\ pc' = "ld_cache"
          /\ outcome' = NoOutcome
          /\ UNCHANGED <<split_to_path, todo, split_to_house_strs, dd>>
  /\ UNCHANGED <<fs, gz, tmp, bad, rvars, lvars>>

\* a cache test that never finds the artifact
LdCacheIgnored ==
  /\ pc = "ld_cache"
  /\ pc' = "ld_resolve"
  /\ UNCHANGED <<ops, outcome, split_to_path, todo, split_to_house_strs, dd>>
  /\ UNCHANGED <<args, fs, gz, tmp, gz0, tmp0, bad, warned, reads, rvars, lvars>>

\* lines 146-149
LdCache ==
  /\ pc = "ld_cache"
  /\ IF args.use_cache /\ FileExists(gz)
     THEN /\ ops' = ops \cup {"cache_read"}
          /\ EndCall(load_pickle_gzip(gz))
     ELSE /\ pc' = "ld_resolve"
          /\ UNCHANGED <<ops, outcome, split_to_path, todo, split_to_house_strs, dd>>
  /\ UNCHANGED <<args, fs, gz, tmp, gz0, tmp0, bad, warned, reads, rvars, lvars>>

\* lines 151-160
LdResolve ==
  /\ pc = "ld_resolve"
  /\ IF args.root
     THEN IF Exists("root")
          THEN /\ split_to_path' = [sp \in RootSplits |-> JoinRoot(sp)]
               /\ pc' = "ld_filter"
               /\ UNCHANGED <<outcome, todo, split_to_house_strs, dd>>
          ELSE EndCall(Raised("AssertionError"))
     ELSE /\ split_to_path' = args.map
          /\ pc' = "ld_filter"
          /\ UNCHANGED <<outcome, todo, split_to_house_strs, dd>>
  /\ UNCHANGED <<args, fs, gz, tmp, gz0, tmp0, evars, rvars, lvars>>

\* a filter that lets an empty split dictionary through
LdFilterNoError ==
  /\ pc = "ld_filter"
  /\ LET kept == {sp \in DOMAIN split_to_path : Exists(split_to_path[sp])}
     IN /\ warned' = warned \cup {<<"split", sp, 0>> : sp \in DOMAIN split_to_path \ kept}
        /\ ops' = ops \cup {"check_split"}
        /\ split_to_path' = [sp \in kept |-> split_to_path[sp]]
        /\ todo' = KeysInOrder(split_to_path')
        /\ pc' = IF kept = {} THEN "ld_build" ELSE "ld_split"
        /\ UNCHANGED <<outcome, split_to_house_strs, dd>>
  /\ UNCHANGED <<args, fs, gz, tmp, gz0, tmp0, bad, reads, rvars, lvars>>

\* lines 162-172
LdFilter ==
  /\ pc = "ld_filter"
  /\ LET kept == {sp \in DOMAIN split_to_path : Exists(split_to_path[sp])}
     IN /\ warned' = warned \cup {<<"split", sp, 0>> : sp \in DOMAIN split_to_path \ kept}
        /\ ops' = ops \cup {"check_split"}
        /\ IF kept = {}
           THEN EndCall(Raised("No splits found."))
           ELSE /\ split_to_path' = [sp \in kept |-> split_to_path[sp]]
                /\ todo' = KeysInOrder(split_to_path')
                /\ pc' = "ld_split"
                /\ UNCHANGED <<outcome, split_to_house_strs, dd>>
  /\ UNCHANGED <<args, fs, gz, tmp, gz0, tmp0, bad, reads, rvars, lvars>>

\* lines 173-178: the next split is a .jsonl.gz file
LdSplitLines ==
  /\ pc = "ld_split"
  /\ EndsWithJsonlGz(split_to_path[Head(todo)])
  /\ lpc' = "l_loop"
  /\ nlines' = MainLines
  /\ max_lines' = NoInt
  /\ lines' = <<>>
  /\ ops' = ops \cup {"fetch"}
  /\ pc' = "ld_wait_lines"
  /\ UNCHANGED <<args, fs, split_to_path, todo, split_to_house_strs, dd, gz, tmp,
                 outcome, gz0, tmp0>>
  /\ UNCHANGED <<bad, warned, reads, rvars>>

\* lines 179-185: the next split is a directory, listed in any order
LdSplitDir ==
  /\ pc = "ld_split"
  /\ ~EndsWithJsonlGz(split_to_path[Head(todo)])
  /\ IsDir(split_to_path[Head(todo)])
  /\ in_paths' \in Orderings(Glob(split_to_path[Head(todo)]))
  /\ num_workers' = ResolvedWorkers(args.num_workers)
  /\ max_files' = NoInt
  /\ rpc' = "r_start"
  /\ ops' = ops \cup {"glob"}
  /\ pc' = "ld_wait_files"
  /\ UNCHANGED <<ind_to_path, missing_count, paths, file_data, next_task, busy, outq>>
  /\ UNCHANGED <<args, fs, split_to_path, todo, split_to_house_strs, dd, gz, tmp,
                 outcome, gz0, tmp0>>
  /\ UNCHANGED <<bad, warned, reads, lvars>>

\* lines 186-187
LdSplitUnknown ==
  /\ pc = "ld_split"
  /\ ~EndsWithJsonlGz(split_to_path[Head(todo)])
  /\ ~IsDir(split_to_path[Head(todo)])
  /\ EndCall(Raised("NotImplementedError"))
  /\ UNCHANGED <<args, fs, gz, tmp, gz0, tmp0, evars, rvars, lvars>>

\* the split's records are stored and the loop of line 173 goes on
StoreSplit(houses) ==
  /\ split_to_house_strs' =
       [sp \in DOMAIN split_to_house_strs \cup {Head(todo)} |->
          IF sp = Head(todo) THEN houses ELSE split_to_house_strs[sp]]
  /\ todo' = Tail(todo)
  /\ pc' = IF Tail(todo) = <<>> THEN "ld_build" ELSE "ld_split"
  /\ UNCHANGED <<args, fs, split_to_path, dd, gz, tmp, outcome, gz0, tmp0>>

\* line 175: read_jsonlgz has returned
LdLinesBack ==
  /\ pc = "ld_wait_lines"
  /\ lpc = "l_ret"
  /\ StoreSplit(lines)
  /\ LReset
  /\ UNCHANGED <<evars, rvars>>

\* line 181: read_jsongz_files has returned
LdFilesBack ==
  /\ pc = "ld_wait_files"
  /\ rpc = "r_ret"
  /\ StoreSplit(file_data)
  /\ RReset
  /\ UNCHANGED <<evars, lvars>>

\* a failed read that is swallowed: the split is kept with no records
LdFilesSkip ==
  /\ pc = "ld_wait_files"
  /\ rpc = "r_raise"
  /\ StoreSplit(<<>>)
  /\ RReset
  /\ UNCHANGED <<evars, lvars>>

\* line 181: read_jsongz_files has raised; nothing catches it
LdFilesRaise ==
  /\ pc = "ld_wait_files"
  /\ rpc = "r_raise"
  /\ EndCall(Raised("IOError"))
  /\ RReset
  /\ UNCHANGED <<args, fs, gz, tmp, gz0, tmp0, evars, lvars>>

\* lines 189-194
LdBuild ==
  /\ pc = "ld_build"
  /\ dd' = [sp \in DOMAIN split_to_house_strs |->
              [data |-> split_to_house_strs[sp], dataset |-> "procthor-100k",
               split |-> sp]]
  /\ ops' = ops \cup {"built"}
  /\ pc' = "ld_save"
  /\ UNCHANGED <<args, fs, split_to_path, todo, split_to_house_strs, gz, tmp,
                 outcome, gz0, tmp0>>
  /\ UNCHANGED <<bad, warned, reads, rvars, lvars>>

\* lines 196-201
LdSave ==
  /\ pc = "ld_save"
  /\ IF args.use_cache /\ ~FileExists(gz)
     THEN /\ pc' = "sv_assert"
          /\ UNCHANGED <<outcome, split_to_path, todo, split_to_house_strs, dd>>
     ELSE EndCall(Returned(dd))
  /\ UNCHANGED <<args, fs, gz, tmp, gz0, tmp0, evars, rvars, lvars>>

\* -------------------------------------------------------- save_pickle_gzip
\* the object being saved: load_dataset's bundle, or the direct caller's data
SaveData == IF args.op = "load" THEN dd ELSE args.data
\* what the caller of save_pickle_gzip gets back on success: load_dataset
\* goes on to line 201, a direct caller gets None
SaveDone == IF args.op = "load" THEN Returned(dd) ELSE Returned(<<>>)

\* the bundles a direct caller of save_pickle_gzip passes
DirectData ==
  {[train |-> [data |-> <<>>, dataset |-> "procthor-100k", split |-> "train"]]}

\* save_pickle_gzip(data, get_cache_file_path(root)) called directly
SaveCall(d) ==
  /\ pc = "idle"
  /\ args' = [NoArgs EXCEPT !.op = "save", !.data = d]
  /\ gz0' = gz
  /\ tmp0' = tmp
  /\ ops' = {}
  /\ reads' = <<>>
  /\ warned' = {}
  /\ pc' = "sv_assert"
  /\ outcome' = NoOutcome
  /\ UNCHANGED <<fs, split_to_path, todo, split_to_house_strs, dd, gz, tmp>>
  /\ UNCHANGED <<bad, rvars, lvars>>

\* lines 92-95
SvAssert ==
  /\ pc = "sv_assert"
  /\ IF FileExists(tmp)
     THEN EndCall(Raised("AssertionError"))
     ELSE /\ pc' = "sv_open"
          /\ UNCHANGED <<outcome, split_to_path, todo, split_to_house_strs, dd>>
  /\ UNCHANGED <<args, fs, gz, tmp, gz0, tmp0, evars, rvars, lvars>>

\* line 96: open(tmp_path, "wb") creates the file empty
SvOpen ==
  /\ pc = "sv_open"
  /\ tmp' = [st |-> "partial", data |-> <<>>]
  /\ ops' = ops \cup {"write"}
  /\ pc' = "sv_dump"
  /\ UNCHANGED <<args, fs, split_to_path, todo, split_to_house_strs, dd, gz,
                 outcome, gz0, tmp0>>
  /\ UNCHANGED <<bad, warned, reads, rvars, lvars>>

\* lines 97-101: the pickle is written and the file closed
SvDump ==
  /\ pc = "sv_dump"
  /\ tmp' = [st |-> "complete", data |-> SaveData]
  /\ pc' = "cp_open"
  /\ UNCHANGED <<args, fs, split_to_path, todo, split_to_house_strs, dd, gz,
                 outcome, gz0, tmp0>>
  /\ UNCHANGED <<evars, rvars, lvars>>

\* lines 83-84: gzip.open(output_file_path, "wb") creates or truncates the
\* final file
CpOpen ==
  /\ pc = "cp_open"
  /\ gz' = [st |-> "partial", data |-> <<>>]
  /\ pc' = "cp_copy"
  /\ UNCHANGED <<args, fs, split_to_path, todo, split_to_house_strs, dd, tmp,
                 outcome, gz0, tmp0>>
  /\ UNCHANGED <<evars, rvars, lvars>>

\* line 85 and the end of the with blocks: the copy is complete
CpCopy ==
  /\ pc = "cp_copy"
  /\ gz' = [st |-> "complete", data |-> tmp.data]
  /\ pc' = "cp_remove"
  /\ UNCHANGED <<args, fs, split_to_path, todo, split_to_house_strs, dd, tmp,
                 outcome, gz0, tmp0>>
  /\ UNCHANGED <<evars, rvars, lvars>>

\* line 86, and the return to the caller
CpRemove ==
  /\ pc = "cp_remove"
  /\ tmp' = NoFile
  /\ EndCall(SaveDone)
  /\ UNCHANGED <<args, fs, gz, gz0, tmp0, evars, rvars, lvars>>

\* ------------------------------------------------------------ environment
\* the process is killed in the middle of a call: its memory and its pool
\* workers are gone, the files stay as they are
Kill ==
  /\ pc \notin {"idle", "done"}
  /\ EndCall(Killed)
  /\ RReset
  /\ LReset
  /\ UNCHANGED <<args, fs, gz, tmp, gz0, tmp0, evars>>

\* the user deletes the cache artifact
DeleteCache ==
  /\ pc = "idle"
  /\ FileExists(gz)
  /\ gz' = NoFile
  /\ UNCHANGED <<pc, args, fs, split_to_path, todo, split_to_house_strs, dd, tmp,
                 outcome, gz0, tmp0>>
  /\ UNCHANGED <<evars, rvars, lvars>>

\* the caller has looked at the outcome; the next call starts afresh
Rest ==
  /\ pc = "done"
  /\ pc' = "idle"
  /\ args' = NoArgs
  /\ outcome' = NoOutcome
  /\ gz0' = NoFile
  /\ tmp0' = NoFile
  /\ ops' = {}
  /\ reads' = <<>>
  /\ warned' = {}
  /\ UNCHANGED <<fs, split_to_path, todo, split_to_house_strs, dd, gz, tmp>>
  /\ UNCHANGED <<bad, rvars, lvars>>

\* the arguments load_dataset is called with
LoadArgs(r, m, c, w) ==
  [op |-> "load", root |-> r, has_map |-> m # <<>>, map |-> m,
   use_cache |-> c, num_workers |-> w, data |-> <<>>]
WorkerArgs == (-1)..MainWorkers
\* path_to_splits given, with and without the cache
RootArgs == {LoadArgs(TRUE, <<>>, c, w) : c \in BOOLEAN, w \in WorkerArgs}
\* split_to_path given
MapArgs == {LoadArgs(FALSE, m, FALSE, w) : m \in Mappings \ {<<>>}, w \in WorkerArgs}
\* neither or both given, or the cache asked for without a root
BadArgs ==
  {LoadArgs(FALSE, <<>>, FALSE, 0), LoadArgs(TRUE, [train |-> "train"], FALSE, 0),
   LoadArgs(FALSE, [train |-> "train"], TRUE, 0)}

\* at most one shard of the populated split directories is unreadable
BadChoices(f) ==
  {B \in SUBSET {ShardPath(sp, i) : sp \in {q \in RootSplits : f[q] = "dir"},
                                    i \in MainShards} : Cardinality(B) <= 1}

InitMain ==
  /\ fs \in FsChoices
  /\ bad \in BadChoices(fs)
  /\ warned = {}
  /\ reads = <<>>
  /\ ops = {}
  /\ RIdle
  /\ LIdle
  /\ pc = "idle"
  /\ args = NoArgs
  /\ split_to_path = <<>>
  /\ todo = <<>>
  /\ split_to_house_strs = <<>>
  /\ dd = <<>>
  /\ gz = NoFile
  /\ tmp = NoFile
  /\ outcome = NoOutcome
  /\ gz0 = NoFile
  /\ tmp0 = NoFile

\* load_dataset on a dataset root, with and without the cache, direct calls
\* of save_pickle_gzip, kills and deletions of the artifact
Next ==
  \/ \E a \in RootArgs : LoadCall(a)
  \/ LdCache
  \/ LdResolve
  \/ LdFilter
  \/ LdSplitDir
  \/ LdFilesBack
  \/ LdFilesRaise
  \/ LdBuild
  \/ LdSave
  \/ \E d \in DirectData : SaveCall(d)
  \/ SvAssert
  \/ SvOpen
  \/ SvDump
  \/ CpOpen
  \/ CpCopy
  \/ CpRemove
  \/ ReadFilesStep
  \/ Kill
  \/ DeleteCache
  \/ Rest

Spec == InitMain /\ [][Next]_vars

\* load_dataset with every form of split configuration, no cache
NextSplits ==
  \/ \E a \in RootArgs \cup MapArgs \cup BadArgs : ~a.use_cache /\ LoadCall(a)
  \/ \E a \in BadArgs : a.use_cache /\ LoadCall(a)
  \/ LdCache
  \/ LdResolve
  \/ LdFilter
  \/ LdSplitLines
  \/ LdSplitDir
  \/ LdSplitUnknown
  \/ LdLinesBack
  \/ LdFilesBack
  \/ LdFilesRaise
  \/ LdBuild
  \/ LdSave
  \/ ReadFilesStep
  \/ ReadLinesStep
  \/ Rest

SpecSplits == InitMain /\ [][NextSplits]_vars

\* ------------------------------------------- claims on read_jsongz_files
\* the indices present in the listing handed to read_jsongz_files
PresentIndices == {IndexOf(in_paths[k]) : k \in DOMAIN in_paths}
MaxPresent == SetMax(PresentIndices)
\* what position i of the dense sequence must hold
ExpectedPath(i) ==
  IF i \in PresentIndices
  THEN CHOOSE p \in Range(in_paths) : IndexOf(p) = i
  ELSE None
ExpectedRecord(i) ==
  IF i \in PresentIndices
  THEN Strip(RawContent(CHOOSE p \in Range(in_paths) : IndexOf(p) = i))
  ELSE NullStr
\* read_jsongz_files is past its reconstruction of a non-empty listing
Reconstructed == rpc \in {"r_cap", "r_seq", "r_pool", "r_raise", "r_ret"} /\ Len(in_paths) > 0
\* ... and past the cap
Capped == rpc \in {"r_seq", "r_pool", "r_raise", "r_ret"} /\ Len(in_paths) > 0

\* C1: gap filling. For a non-empty listing with distinct indices, the
\* reconstructed sequence has length max(index)+1, position i holds the real
\* path of index i when present and None when absent, the missing count is
\* the number of absent integers of [0, max(index)] (warned about when
\* positive); with no cap this is the sequence that is fetched, and every
\* absent position is returned as the sentinel "null".
C1_GapFilling ==
  /\ (Reconstructed /\ (rpc = "r_cap" \/ max_files = NoInt))
       => /\ Len(paths) = MaxPresent + 1
          /\ \A i \in 0..MaxPresent : paths[i + 1] = ExpectedPath(i)
          /\ missing_count = Cardinality((0..MaxPresent) \ PresentIndices)
          /\ (missing_count > 0) = (<<"missing", "shards", missing_count>> \in warned)
          /\ (missing_count = 0) => warned = {}
  /\ (Reconstructed /\ rpc = "r_ret" /\ max_files = NoInt)
       => /\ Len(file_data) = MaxPresent + 1
          /\ \A i \in 0..MaxPresent : file_data[i + 1] = ExpectedRecord(i)

\* indices {0, 3} with no cap: four records, the middle two the sentinel
C1_Witness ==
  /\ rpc = "r_ret"
  /\ Len(in_paths) > 0
  /\ max_files = NoInt
  /\ PresentIndices = {0, MaxPresent}
  /\ missing_count = 2
  /\ Len(file_data) = 4
  /\ file_data[2] = NullStr
  /\ file_data[1] # NullStr

\* C8: cap truncation. With a cap c >= 0 the sequence that is fetched is the
\* first c positions of the gap-filled dense sequence: its length is
\* min(c, max(index)+1) and position i < c holds the path (and, on return, the
\* record) of index i or the missing marker, so gaps count against the cap.
C8_CapTruncation ==
  (Capped /\ max_files # NoInt /\ TheInt(max_files) >= 0)
    => LET n == Min(TheInt(max_files), MaxPresent + 1)
       IN /\ Len(paths) = n
          /\ \A i \in 0..(n - 1) : paths[i + 1] = ExpectedPath(i)
          /\ rpc = "r_ret"
               => /\ Len(file_data) = n
                  /\ \A i \in 0..(n - 1) : file_data[i + 1] = ExpectedRecord(i)

\* a cap of 2 over indices with a gap at 1: the gap takes the second place
C8_Witness ==
  /\ rpc = "r_ret"
  /\ Len(in_paths) > 0
  /\ max_files = Some(2)
  /\ MaxPresent >= 2
  /\ 1 \notin PresentIndices
  /\ Len(file_data) = 2
  /\ file_data[2] = NullStr

\* C2: order preservation. For every pool size W >= 0 and every completion
\* order, the list read_jsongz_files returns has the length of the sequence
\* that was fetched and holds at position k the result of load_jsongz_as_str
\* on the k-th path, which is the sequential (W = 0) result.
C2_OrderPreserved ==
  (rpc = "r_ret" /\ Len(in_paths) > 0)
    => /\ Len(file_data) = Len(paths)
       /\ \A k \in 1..Len(paths) : file_data[k] = load_jsongz_as_str(paths[k], bad)
       /\ file_data = SeqResult(paths, bad)

\* a pooled fetch whose second task completed before its first
C2_Witness ==
  /\ rpc = "r_ret"
  /\ num_workers >= 2
  /\ Len(outq) >= 3
  /\ outq[1][1] > outq[2][1]
  /\ file_data[1] # file_data[2]

\* ------------------------------------------------ claim on read_jsonlgz
\* C10: cap for single-file splits. read_jsonlgz with max_lines = c >= 0
\* returns the first min(c, number of lines) lines in file order (so never
\* more than c lines, also for c = 0), and every line when there is no cap.
C10_LineCap ==
  lpc = "l_ret"
    => LET n == IF max_lines = NoInt THEN nlines
                ELSE Min(TheInt(max_lines), nlines)
       IN /\ Len(lines) = n
          /\ \A j \in 1..n : lines[j] = Line("lines.jsonl.gz", j)

\* --------------------------------- claims on load_dataset and the cache
\* the current call is a load_dataset call whose preconditions hold
ValidLoad ==
  /\ args.op = "load"
  /\ args.root # args.has_map
  /\ args.use_cache => args.root
\* the split dictionary the call is configured with
Configured == IF args.root THEN [sp \in RootSplits |-> JoinRoot(sp)] ELSE args.map
ExistingSplits == {sp \in DOMAIN Configured : Exists(Configured[sp])}
\* the positions of the call's reads that hit an unreadable shard
FailedReads == {k \in DOMAIN reads : reads[k] \in bad}

\* C3: overwrite refusal. A call of save_pickle_gzip on a save_path that
\* already holds an artifact fails and leaves that artifact as it was,
\* whether or not a temporary .pkl file is present.
C3_OverwriteRefused ==
  (args.op = "save" /\ FileExists(gz0))
    => /\ gz = gz0
       /\ (pc = "done" /\ outcome.kind # "killed") => outcome.kind = "raised"

\* C4: crash safety. Whenever no save is in progress (in particular after the
\* process was killed at any point of save_pickle_gzip), the final path
\* dataset_cache.pkl.gz is absent or holds a complete artifact, never a
\* truncated one.
C4_NoPartialArtifact ==
  pc \in {"idle", "done"} => gz.st \in {"absent", "complete"}

\* C5: cache hit short-circuit. In a load_dataset(use_cache=True) call that
\* finds a file at the cache path, the existence test is the first thing done
\* and the call ends there with what load_pickle_gzip yields for the file (the
\* deserialized artifact when the file is a complete one): no split path is
\* checked, nothing is globbed, reconstructed or fetched, no pool is created
\* and no file is written.
C5_CacheHitShortCircuit ==
  (ValidLoad /\ args.use_cache /\ FileExists(gz0))
    => /\ pc \in {"ld_cache", "done"}
       /\ ops \subseteq {"cache_read"}
       /\ reads = <<>>
       /\ warned = {}
       /\ rpc = "idle"
       /\ gz = gz0
       /\ tmp = tmp0
       /\ (pc = "done" /\ outcome.kind # "killed")
            => /\ ops = {"cache_read"}
               /\ outcome.kind = load_pickle_gzip(gz0).kind
               /\ outcome.err = load_pickle_gzip(gz0).err
               /\ gz0.st = "complete"
                    => outcome.kind = "returned" /\ outcome.val = gz0.data

\* a hit on an artifact an earlier load wrote, on a root whose train split
\* has records
C5_Witness ==
  /\ pc = "done"
  /\ ValidLoad
  /\ args.use_cache
  /\ gz0.st = "complete"
  /\ fs["train"] = "dir"
  /\ ops = {"cache_read"}
  /\ outcome.kind = "returned"
  /\ DOMAIN outcome.val = ExistingSplits
  /\ Len(outcome.val["train"].data) > 1

\* C6: cache write after a fresh load. In every state of the cache files that
\* earlier calls and interrupted saves can leave, a load_dataset(use_cache=
\* True) call whose splits load successfully returns the bundle and writes
\* the artifact if and only if it did not exist; and a call that finds a
\* complete artifact reads and returns it.
C6_CacheWrittenAfterLoad ==
  /\ (pc = "done" /\ ValidLoad /\ args.use_cache /\ "built" \in ops
        /\ outcome.kind # "killed")
       => /\ outcome.kind = "returned"
          /\ FileExists(gz0) = ("write" \notin ops)
          /\ ~FileExists(gz0) => (gz.st = "complete" /\ gz.data = outcome.val)
  /\ (pc = "done" /\ ValidLoad /\ args.use_cache /\ gz0.st = "complete"
        /\ outcome.kind # "killed")
       => /\ "cache_read" \in ops
          /\ outcome.kind = "returned"
          /\ outcome.val = gz0.data

C9_AbortOnShardFailure ==
  (args.op = "load" /\ FailedReads # {})
    => /\ Cardinality(FailedReads) = 1
       /\ pc \in {"ld_wait_files", "done"}
       /\ "built" \notin ops
       /\ "write" \notin ops
       /\ gz = gz0
       /\ tmp = tmp0
       /\ (pc = "done" /\ outcome.kind # "killed")
            => (outcome.kind = "raised" /\ outcome.err = "IOError")

\* a pooled, cache-enabled load whose first split was read in full before a
\* shard of a later split failed
C9_Witness ==
  /\ pc = "done"
  /\ args.use_cache
  /\ args.num_workers > 0
  /\ Len(reads) >= 3
  /\ FailedReads # {}
  /\ Dirname(reads[1]) # Dirname(reads[Len(reads)])
  /\ outcome.kind = "raised"
  /\ outcome.err = "IOError"
  /\ ~FileExists(gz)

====
